---- MODULE Spec2Model ----
(***************************************************************************)
(* pyhomekit/ble.py: the HAP-BLE PDU codec, the fragmenting request        *)
(* writer, the response validation and the retry supervision of            *)
(* HapCharacteristic.                                                      *)
(*                                                                         *)
(* Bytes are naturals 0..255, byte strings are sequences of bytes.         *)
(* An optional value is <<>> (None) or <<v>>.                              *)
(***************************************************************************)
EXTENDS Naturals, Integers, Sequences, FiniteSets, TLC

VARIABLES
    pc,            \* position of the running call: idle, read_cid, request, read, done
    op,            \* the call in progress: none, setup, signature, cid, write, read
    header,        \* the HapBlePduRequestHeader object of the call (mutable)
    body,          \* the caller's body list handed to _request (mutable)
    at,            \* position inside _request: "start" (function entry) or "loop"
    written,       \* every frame handed to characteristic.write: [frame, ack]
    counters,      \* attempt number of each installed retry wrapper, innermost first
    tries,         \* attempts of the supervised operation in progress
    io,            \* transport operations (write, read, descriptor read, reconnect) of the call
    responses,     \* the responses characteristic.read returned during the call
    parsed,        \* TRUE once _parse_response was invoked during the call
    result,        \* outcome of the call
    req,           \* the arguments of the call as passed: [header, body]
    before,        \* the facade's state when the call started: [attrs, _signature, _cid]
    _cid,          \* HapCharacteristic._cid
    _signature,    \* HapCharacteristic._signature
    attrs,         \* instance attributes, hap_format_converter and those set by setattr
    layers,        \* max_attempts of the retry wrappers around _read_cid/_request/_read
    ncalls         \* calls made on the facade so far

vars == <<pc, op, header, body, at, written, counters, tries, io, responses,
          parsed, result, req, before, _cid, _signature, attrs, layers, ncalls>>

(***************************************************************************)
(* Bounds of the model.                                                    *)
(***************************************************************************)
MaxItems == 4          \* items of a body list in the fragmenter specification
MaxCalls == 2          \* calls on one facade
MaxAttempts == 2       \* largest max_attempts passed to setup
MaxFailures == 2       \* transport failures during one call

(***************************************************************************)
(* Byte-string helpers (Python slicing and struct.pack).                   *)
(***************************************************************************)
Min(a, b) == IF a < b THEN a ELSE b

\* s[:n] for n >= 0
Take(s, n) == SubSeq(s, 1, Min(n, Len(s)))

\* s[n:] for n >= 0
Drop(s, n) == SubSeq(s, Min(n, Len(s)) + 1, Len(s))

\* pack('<H', n)
pack_H(n) == <<n % 256, (n \div 256) % 256>>

\* unpack('<H', b)[0] of a 2-byte string
unpack_H(b) == b[1] + 256 * b[2]

\* bit k of byte n, as bin(n)[2:].zfill(8)[::-1][k] == '1'
Bit(n, k) == ((n \div (2 ^ k)) % 2) = 1

None == <<>>
Some(x) == <<x>>

(***************************************************************************)
(* HapBlePduRequestHeader                                                  *)
(***************************************************************************)
\* int("{continuation}00000{response}0", 2)
control_field(h) ==
    (IF h.continuation THEN 128 ELSE 0) + (IF h.response THEN 2 ELSE 0)

\* HapBlePduRequestHeader.data, once the transaction id exists
data(h) ==
    IF h.continuation
    THEN <<control_field(h), h.transaction_id>>
    ELSE <<control_field(h), h.op_code, h.transaction_id>> \o h.cid_sid

\* HapBlePduRequestHeader(cid_sid, op_code, response, continuation, transaction_id)
HapBlePduRequestHeader(cid_sid, op_code, response, continuation, transaction_id) ==
    [continuation |-> continuation, response |-> response, op_code |-> op_code,
     transaction_id |-> transaction_id, cid_sid |-> cid_sid]

(***************************************************************************)
(* HapCharacteristic._prepare_tlv and the fragment loop of _request        *)
(***************************************************************************)
max_len == 512

\* pack('<BB', param_type, len(value)) raises struct.error above 255
Packable(item) == Len(item[2]) <= 255

_prepare_tlv(param_type, value) == <<param_type, Len(value)>> \o value

RECURSIVE body_concat(_)
body_concat(b) ==
    IF b = <<>> THEN <<>> ELSE _prepare_tlv(b[1][1], b[1][2]) \o body_concat(Tail(b))

\* a plausible slip: the inner loop never pops an item
fill_fragment_pops_nothing(b, fragment_data) == [body |-> b, fragment_data |-> fragment_data]

\* the inner while loop: pop whole TLVs while they fit
RECURSIVE fill_fragment(_, _)
fill_fragment(b, fragment_data) ==
    IF b # <<>> /\ Len(fragment_data) + Len(_prepare_tlv(b[1][1], b[1][2])) < max_len
    THEN fill_fragment(Tail(b), fragment_data \o _prepare_tlv(b[1][1], b[1][2]))
    ELSE [body |-> b, fragment_data |-> fragment_data]

\* a plausible slip: the remainder starts one byte late
split_tlv_off_by_one(st) ==
    IF st.body # <<>>
    THEN LET param_type == st.body[1][1]
             value == st.body[1][2]
             cut == max_len - Len(st.fragment_data)
         IN  [body |-> <<<<param_type, Drop(value, cut + 1)>>>> \o Tail(st.body),
              fragment_data |-> st.fragment_data
                                \o _prepare_tlv(param_type, Take(value, cut))]
    ELSE st

\* "Split TLV": the first pending value is cut at max_len - len(fragment_data)
split_tlv(st) ==
    IF st.body # <<>>
    THEN LET param_type == st.body[1][1]
             value == st.body[1][2]
             cut == max_len - Len(st.fragment_data)
             first_fragment == Take(value, cut)
             second_fragment == Drop(value, cut)
         IN  [body |-> <<<<param_type, second_fragment>>>> \o Tail(st.body),
              fragment_data |-> st.fragment_data \o _prepare_tlv(param_type, first_fragment)]
    ELSE st

\* one pass of the outer while loop, up to the frame it writes
fragment_pass(h, b) ==
    LET st == split_tlv(fill_fragment(b, <<>>))
    IN  [body |-> st.body,
         frame |-> data(h) \o pack_H(Len(st.fragment_data)) \o st.fragment_data]

\* "Is a fragmented write necessary?"
fits_one_frame(h, b) == Len(data(h)) + 2 + Len(body_concat(b)) <= max_len

single_frame(h, b) == data(h) \o pack_H(Len(body_concat(b))) \o body_concat(b)

(***************************************************************************)
(* HapBlePduResponseHeader                                                 *)
(***************************************************************************)
\* HapBlePduResponseHeader.from_data: unpack('<B', ...) of an empty slice raises
from_data_fails(bytes) == Len(bytes) < 3

from_data(bytes) ==
    [continuation |-> Bit(bytes[1], 7),
     response |-> Bit(bytes[1], 1),
     transaction_id |-> bytes[2],
     status_code |-> bytes[3]]

\* HapBlePduResponseHeader.control_field
response_control_field(r) ==
    (IF r.continuation THEN 128 ELSE 0) + (IF r.response THEN 2 ELSE 0)

\* HapBlePduResponseHeader.data
response_data(r) == <<response_control_field(r), r.transaction_id, r.status_code>>

(***************************************************************************)
(* Constant tables of pyhomekit.constants and helpers of pyhomekit.utils.  *)
(***************************************************************************)
Success == 0

status_code_to_name ==
    (0 :> "Success") @@ (1 :> "Unsupported-PDU") @@ (2 :> "Max-Procedures") @@
    (3 :> "Insufficient Authorization") @@ (4 :> "Invalid Instance ID") @@
    (5 :> "Insufficient Authentication") @@ (6 :> "Invalid Request")

HAP_param_type_code_to_name ==
    (1 :> "Value") @@ (10 :> "HAP_Characteristic_Properties_Descriptor") @@
    (12 :> "GATT_Presentation_Format_Descriptor") @@ (13 :> "GATT_Valid_Range") @@
    (14 :> "HAP_Step_Value_Descriptor")

HAP_param_name_to_converter ==
    [name \in {"Value", "HAP_Characteristic_Properties_Descriptor",
               "GATT_Presentation_Format_Descriptor", "GATT_Valid_Range",
               "HAP_Step_Value_Descriptor"} |->
        CASE name = "HAP_Characteristic_Properties_Descriptor" -> "uint16"
          [] name = "GATT_Presentation_Format_Descriptor" -> "parse_format"
          [] OTHER -> "identity"]

format_code_to_name ==
    (1 :> "bool") @@ (4 :> "uint8") @@ (6 :> "uint16") @@ (27 :> "data")

unit_code_to_name ==
    (9984 :> "unitless") @@ (10031 :> "celsius") @@ (10157 :> "percentage")

\* a decoded value: an integer, a byte string, a name or a converter
IntVal(n) == [type |-> "int", n |-> n, b |-> <<>>, s |-> ""]
BytesVal(b) == [type |-> "bytes", n |-> 0, b |-> b, s |-> ""]
NameVal(s) == [type |-> "name", n |-> 0, b |-> <<>>, s |-> s]
FnVal(s) == [type |-> "function", n |-> 0, b |-> <<>>, s |-> s]

\* the byte length struct.unpack demands of a converter's input; 0: any length
converter_size(conv) ==
    CASE conv = "bool" -> 1
      [] conv = "uint8" -> 1
      [] conv = "uint16" -> 2
      [] conv = "parse_format" -> 7
      [] OTHER -> 0

converter_fails(conv, b) == converter_size(conv) # 0 /\ Len(b) # converter_size(conv)

\* the converters: utils.identity and the little-endian struct formats
convert(conv, b) ==
    CASE conv = "bool" -> IntVal(IF b[1] = 0 THEN 0 ELSE 1)
      [] conv = "uint8" -> IntVal(b[1])
      [] conv = "uint16" -> IntVal(b[1] + 256 * b[2])
      [] OTHER -> BytesVal(b)

\* the GATT presentation format descriptor: format (1), exponent (1), unit (2), ...
parse_format(b) == [format_code |-> b[1], unit_code |-> b[3] + 256 * b[4]]

\* utils.iterate_tvl: the next (type, length, value) of a stream
iterate_tvl(stream) ==
    IF Len(stream) < 2 \/ stream[2] > Len(stream) - 2
    THEN [ok |-> FALSE, body_type |-> 0, length |-> 0, bytes_ |-> <<>>, rest |-> <<>>]
    ELSE [ok |-> TRUE, body_type |-> stream[1], length |-> stream[2],
          bytes_ |-> SubSeq(stream, 3, 2 + stream[2]),
          rest |-> Drop(stream, 2 + stream[2])]

(***************************************************************************)
(* HapCharacteristic._check_read_response                                  *)
(***************************************************************************)
Raised(exc, status_code) ==
    [state |-> "raised", exc |-> exc, status_code |-> status_code, value |-> None]

Returned(value) ==
    [state |-> "returned", exc |-> "none", status_code |-> -1, value |-> Some(value)]

NoResult == [state |-> "none", exc |-> "none", status_code |-> -1, value |-> None]

\* HapBleError(status_code=...): the name and message lookups raise KeyError
\* for a status code outside the table
HapBleError(status_code) ==
    IF status_code \in DOMAIN status_code_to_name
    THEN Raised("HapBleError", status_code)
    ELSE Raised("KeyError", -1)

\* a plausible slip: the transaction ids are never compared
transaction_id_differs_unchecked(response_header, request_header) == FALSE

\* response_header.transaction_id != request_header.transaction_id
transaction_id_differs(response_header, request_header) ==
    response_header.transaction_id # request_header.transaction_id

\* the exception _check_read_response raises, or NoResult when it returns
_check_read_response(request_header, response) ==
    IF from_data_fails(response) THEN Raised("struct.error", -1)
    ELSE LET response_header == from_data(response) IN
    IF response_control_field(response_header) # control_field(request_header)
    THEN Raised("ValueError: Invalid control field", -1)
    ELSE IF transaction_id_differs(response_header, request_header)
    THEN Raised("ValueError: Invalid transaction ID", -1)
    ELSE IF response_header.status_code # Success
    THEN HapBleError(response_header.status_code)
    ELSE IF Len(response) > 3
    THEN IF Len(SubSeq(response, 4, Min(5, Len(response)))) # 2
         THEN Raised("struct.error", -1)
         ELSE IF Len(Drop(response, 5)) # unpack_H(SubSeq(response, 4, 5))
              THEN Raised("ValueError: Invalid body length", -1)
              ELSE NoResult
    ELSE NoResult

(***************************************************************************)
(* HapCharacteristic._parse_response                                       *)
(***************************************************************************)
AttrNames ==
    {"value", "hap_characteristic_properties_descriptor", "hap_format",
     "hap_format_converter", "hap_unit", "min_value", "max_value",
     "hap_step_value_descriptor"}

NoAttributes == [k \in AttrNames |-> None]

\* the attributes of a freshly constructed HapCharacteristic
InitAttrs == [NoAttributes EXCEPT !["hap_format_converter"] = Some(FnVal("identity"))]

\* str.lower() of the keys of new_attrs
lower(name) ==
    CASE name = "Value" -> "value"
      [] name = "HAP_Characteristic_Properties_Descriptor" ->
             "hap_characteristic_properties_descriptor"
      [] name = "HAP_Step_Value_Descriptor" -> "hap_step_value_descriptor"
      [] OTHER -> name

\* setattr(self, key.lower(), val); attributes[key.lower()] = val  for every new attribute
add_attributes(st, new_attrs) ==
    [st EXCEPT !.attrs = [k \in AttrNames |->
                            IF k \in DOMAIN new_attrs THEN Some(new_attrs[k]) ELSE @[k]],
               !.attributes = [k \in AttrNames |->
                            IF k \in DOMAIN new_attrs THEN Some(new_attrs[k]) ELSE @[k]]]

\* the body of the for loop, for one item of the stream
parse_item(body_type, length, bytes_, st) ==
    IF Len(bytes_) # length
    THEN [st EXCEPT !.exc = "HapBleError"]
    ELSE IF body_type \notin DOMAIN HAP_param_type_code_to_name
    THEN [st EXCEPT !.exc = "KeyError"]
    ELSE
    LET name == HAP_param_type_code_to_name[body_type]
        converter ==
            IF name \in {"GATT_Valid_Range", "HAP_Step_Value_Descriptor", "Value"}
            THEN st.attrs["hap_format_converter"][1].s
            ELSE HAP_param_name_to_converter[name]
    IN
    IF name = "GATT_Presentation_Format_Descriptor"
    THEN IF converter_fails(converter, bytes_)
         THEN [st EXCEPT !.exc = "struct.error"]
         ELSE LET fu == parse_format(bytes_) IN
              IF fu.format_code \notin DOMAIN format_code_to_name
                 \/ fu.unit_code \notin DOMAIN unit_code_to_name
              THEN [st EXCEPT !.exc = "KeyError"]
              ELSE add_attributes(st,
                     [k \in {"hap_format", "hap_format_converter", "hap_unit"} |->
                        CASE k = "hap_format" -> NameVal(format_code_to_name[fu.format_code])
                          [] k = "hap_format_converter" ->
                                 FnVal(format_code_to_name[fu.format_code])
                          [] OTHER -> NameVal(unit_code_to_name[fu.unit_code])])
    ELSE IF name = "GATT_Valid_Range"
    THEN LET low == Take(bytes_, Len(bytes_) \div 2)
             high == Drop(bytes_, Len(bytes_) \div 2)
         IN  IF converter_fails(converter, low) \/ converter_fails(converter, high)
             THEN [st EXCEPT !.exc = "struct.error"]
             ELSE add_attributes(st,
                    [k \in {"min_value", "max_value"} |->
                       IF k = "min_value" THEN convert(converter, low)
                       ELSE convert(converter, high)])
    ELSE IF converter_fails(converter, bytes_)
         THEN [st EXCEPT !.exc = "struct.error"]
         ELSE add_attributes(st, [k \in {lower(name)} |-> convert(converter, bytes_)])

\* the for loop over utils.iterate_tvl(response[5:])
RECURSIVE parse_loop(_, _)
parse_loop(stream, st) ==
    IF stream = <<>> THEN st
    ELSE LET it == iterate_tvl(stream) IN
         IF ~it.ok THEN [st EXCEPT !.exc = "MalformedTLV"]
         ELSE LET nxt == parse_item(it.body_type, it.length, it.bytes_, st) IN
              IF nxt.exc # "none" THEN nxt ELSE parse_loop(it.rest, nxt)

\* [exc, attrs, attributes]: the exception raised if any, the instance attributes
\* afterwards and the mapping built
_parse_response(response, self_attrs) ==
    parse_loop(Drop(response, 5),
               [exc |-> "none", attrs |-> self_attrs, attributes |-> NoAttributes])

(***************************************************************************)
(* HapCharacteristic.write, from the response read on                      *)
(***************************************************************************)
\* [result, attrs, parsed] of write() once self._read() returned `response`
write_after_read(request_header, response, self_attrs) ==
    LET chk == _check_read_response(request_header, response) IN
    IF chk.state = "raised"
    THEN [result |-> chk, attrs |-> self_attrs, parsed |-> FALSE]
    ELSE IF from_data(response).continuation
    THEN [result |-> Raised("NotImplementedError", -1), attrs |-> self_attrs,
          parsed |-> FALSE]
    ELSE LET p == _parse_response(response, self_attrs) IN
         [result |-> IF p.exc = "none" THEN Returned(p.attributes) ELSE Raised(p.exc, -1),
          attrs |-> p.attrs, parsed |-> TRUE]

(***************************************************************************)
(* The retry supervision installed by _setup_tenacity                      *)
(***************************************************************************)
\* the methods _setup_tenacity wraps
retry_functions == {"_read_cid", "_request", "_read"}

\* setattr(self, name, retry(getattr(self, name))): the new wrapper goes around
\* whatever the attribute holds, earlier wrappers included
_setup_tenacity(ls, max_attempts) == Append(ls, max_attempts)

\* a supervised call starts with every wrapper at its first attempt
FirstAttempt(ls) == [i \in 1..Len(ls) |-> 1]

\* the wrappers that may still make another attempt
CanRetry(cs, ls) == {i \in 1..Len(ls) : cs[i] < ls[i]}

\* utils.reconnect_tenacity_retry: a transport failure is retried by the innermost
\* wrapper that has attempts left; the wrappers inside it start over
NextAttempt(cs, ls) ==
    LET i == CHOOSE k \in CanRetry(cs, ls) : \A j \in CanRetry(cs, ls) : k <= j
    IN  [j \in 1..Len(ls) |-> IF j < i THEN 1 ELSE IF j = i THEN cs[j] + 1 ELSE cs[j]]

IoOp(name, ok) == [op |-> name, ok |-> ok]

(***************************************************************************)
(* Inputs                                                                  *)
(***************************************************************************)
\* a value of n bytes whose bytes differ by position and by TLV type
Value(t, n) == [i \in 1..n |-> (3 * i + t) % 256]

\* a 16-byte characteristic instance id
CidBytes == [i \in 1..16 |-> i - 1]

\* opcodes of constants.HapBleOpCodes
Characteristic_Signature_Read == 1
Characteristic_Write == 2

\* the values random.SystemRandom().getrandbits(8) is drawn from here
TidChoices == {66, 255}

\* request headers a caller passes to write(): first-fragment headers, with the
\* transaction id given or left to be generated (-1 models None)
WriteHeaders ==
    {HapBlePduRequestHeader(CidBytes, Characteristic_Write, TRUE, FALSE, -1),
     HapBlePduRequestHeader(CidBytes, Characteristic_Write, FALSE, FALSE, 122)}

\* bodies of the facade specification: one frame, two frames, and a value of more
\* than 255 bytes
BodiesSpec ==
    {<<<<1, Value(1, 1)>>>>,
     <<<<1, Value(1, 255)>>, <<2, Value(2, 255)>>>>,
     <<<<1, Value(1, 256)>>>>}

\* what follows the three header bytes of a response
ResponseTails ==
    {<<>>, <<0>>, <<0, 0>>, <<1, 0>>,
     <<3, 0, 1, 1, 5>>,
     <<3, 0, 1, 5, 5>>,
     <<3, 0, 99, 1, 5>>,
     <<12, 0, 12, 7, 4, 0, 0, 39, 1, 0, 0, 1, 1, 5>>,
     <<12, 0, 1, 1, 5, 12, 7, 4, 0, 0, 39, 1, 0, 0>>,
     <<12, 0, 12, 7, 4, 0, 0, 39, 1, 0, 0, 1, 5, 5>>}

\* responses the peer may answer a request with: every header without a body, and every tail behind a header that reports success
Responses(h) ==
    {<<cf, t, st>> \o tail :
        cf \in {0, 2, 3, 128, 130},
        t \in {h.transaction_id, (h.transaction_id + 1) % 256},
        st \in {0, 6, 7},
        tail \in {<<>>}}
    \cup
    {<<cf, h.transaction_id, 0>> \o tail : cf \in {0, 2, 128, 130}, tail \in ResponseTails}

(***************************************************************************)
(* State                                                                   *)
(***************************************************************************)
NoHeader == HapBlePduRequestHeader(<<>>, 0, FALSE, FALSE, -1)

Init ==
    /\ pc = "idle"
    /\ op = "none"
    /\ header = NoHeader
    /\ body = <<>>
    /\ at = "start"
    /\ written = <<>>
    /\ counters = <<>>
    /\ tries = 0
    /\ io = <<>>
    /\ responses = <<>>
    /\ parsed = FALSE
    /\ result = NoResult
    /\ req = [header |-> NoHeader, body |-> <<>>]
    /\ before = [attrs |-> InitAttrs, _signature |-> None, _cid |-> None]
    /\ _cid = None
    /\ _signature = None
    /\ attrs = InitAttrs
    /\ layers = <<>>
    /\ ncalls = 0

\* a call starts: nothing written or read yet, the facade's state remembered
BeginCall(name, h, b) ==
    /\ pc = "idle"
    /\ ncalls < MaxCalls
    /\ ncalls' = ncalls + 1
    /\ op' = name
    /\ header' = h
    /\ body' = b
    /\ req' = [header |-> h, body |-> b]
    /\ before' = [attrs |-> attrs, _signature |-> _signature, _cid |-> _cid]
    /\ written' = <<>>
    /\ io' = <<>>
    /\ responses' = <<>>
    /\ parsed' = FALSE
    /\ at' = "start"

(***************************************************************************)
(* Calls on the facade                                                     *)
(***************************************************************************)
\* the header HapCharacteristic.signature builds
signature_read_header(cid_sid) ==
    HapBlePduRequestHeader(cid_sid, Characteristic_Signature_Read, TRUE, FALSE, -1)

\* a plausible slip: the signature property never looks at its cache
signature_access_uncached(name, ls) ==
    IF _cid = None
    THEN /\ BeginCall(name, NoHeader, <<>>)
         /\ pc' = "read_cid"
         /\ result' = NoResult
         /\ counters' = FirstAttempt(ls)
         /\ tries' = 1
         /\ UNCHANGED <<_cid, _signature, attrs>>
    ELSE /\ BeginCall(name, signature_read_header(_cid[1]), <<>>)
         /\ pc' = "request"
         /\ result' = NoResult
         /\ counters' = FirstAttempt(ls)
         /\ tries' = 1
         /\ UNCHANGED <<_cid, _signature, attrs>>

\* the signature property, with the retry wrappers ls in place: the cached value,
\* or the cid property followed by read(signature_read_header)
signature_access(name, ls) ==
    IF _signature # None
    THEN /\ BeginCall(name, NoHeader, <<>>)
         /\ pc' = "done"
         /\ result' = Returned(_signature[1])
         /\ counters' = <<>>
         /\ tries' = 0
         /\ UNCHANGED <<_cid, _signature, attrs>>
    ELSE IF _cid = None
    THEN /\ BeginCall(name, NoHeader, <<>>)
         /\ pc' = "read_cid"
         /\ result' = NoResult
         /\ counters' = FirstAttempt(ls)
         /\ tries' = 1
         /\ UNCHANGED <<_cid, _signature, attrs>>
    ELSE /\ BeginCall(name, signature_read_header(_cid[1]), <<>>)
         /\ pc' = "request"
         /\ result' = NoResult
         /\ counters' = FirstAttempt(ls)
         /\ tries' = 1
         /\ UNCHANGED <<_cid, _signature, attrs>>

\* HapCharacteristic.setup(retry, max_attempts, wait_time)
setup(retry, max_attempts) ==
    /\ LET ls == IF retry THEN _setup_tenacity(layers, max_attempts) ELSE layers
       IN  /\ layers' = ls
           /\ signature_access("setup", ls)

\* the property HapCharacteristic.signature
signature ==
    /\ signature_access("signature", layers)
    /\ UNCHANGED layers

\* the property HapCharacteristic.cid
cid ==
    /\ BeginCall("cid", NoHeader, <<>>)
    /\ IF _cid # None
       THEN /\ pc' = "done"
            /\ result' = Returned(NoAttributes)
            /\ counters' = <<>>
            /\ tries' = 0
       ELSE /\ pc' = "read_cid"
            /\ result' = NoResult
            /\ counters' = FirstAttempt(layers)
            /\ tries' = 1
    /\ UNCHANGED <<_cid, _signature, attrs, layers>>

\* HapCharacteristic.write(request_header, body), up to the call of _request
write(request_header, b) ==
    /\ BeginCall("write", request_header, b)
    /\ pc' = "request"
    /\ result' = NoResult
    /\ counters' = FirstAttempt(layers)
    /\ tries' = 1
    /\ UNCHANGED <<_cid, _signature, attrs, layers>>

\* HapCharacteristic.read(request_header): write(request_header, [])
read(request_header) ==
    /\ BeginCall("read", request_header, <<>>)
    /\ pc' = "request"
    /\ result' = NoResult
    /\ counters' = FirstAttempt(layers)
    /\ tries' = 1
    /\ UNCHANGED <<_cid, _signature, attrs, layers>>

\* the transport operations of the call that failed so far
Failures == Cardinality({i \in 1..Len(io) : ~io[i].ok})

\* a transport failure inside a supervised method: the next attempt after a
\* reconnect, or the failure reaches the caller
transport_failure(name, again) ==
    /\ Failures < MaxFailures
    /\ IF name \in retry_functions /\ CanRetry(counters, layers) # {}
       THEN /\ counters' = NextAttempt(counters, layers)
            /\ tries' = tries + 1
            /\ io' = io \o <<IoOp(name, FALSE), IoOp("reconnect", TRUE)>>
            /\ pc' = again
            /\ result' = result
       ELSE /\ io' = Append(io, IoOp(name, FALSE))
            /\ pc' = "done"
            /\ result' = Raised("TransportError", -1)
            /\ UNCHANGED <<counters, tries>>

(***************************************************************************)
(* HapCharacteristic._read_cid                                             *)
(***************************************************************************)
_read_cid_returns(value) ==
    /\ pc = "read_cid"
    /\ _cid' = Some(value)
    /\ io' = Append(io, IoOp("_read_cid", TRUE))
    /\ IF op = "cid"
       THEN /\ pc' = "done"
            /\ result' = Returned(NoAttributes)
            /\ UNCHANGED <<header, req, counters, tries>>
       ELSE /\ pc' = "request"
            /\ header' = signature_read_header(value)
            /\ req' = [header |-> signature_read_header(value), body |-> <<>>]
            /\ result' = NoResult
            /\ counters' = FirstAttempt(layers)
            /\ tries' = 1
    /\ UNCHANGED <<op, body, at, written, responses, parsed, before, _signature,
                   attrs, layers, ncalls>>

_read_cid_fails ==
    /\ pc = "read_cid"
    /\ transport_failure("_read_cid", "read_cid")
    /\ UNCHANGED <<op, header, body, at, written, responses, parsed, req, before,
                   _cid, _signature, attrs, layers, ncalls>>

(***************************************************************************)
(* HapCharacteristic._request                                              *)
(***************************************************************************)
\* the transaction ids the header may have once header.data was evaluated
TidsFor(h) == IF h.transaction_id = -1 THEN TidChoices ELSE {h.transaction_id}

with_tid(h, t) == [h EXCEPT !.transaction_id = t]

\* list comprehension of _prepare_tlv over a non-empty body
pack_error(b) == b # <<>> /\ \E i \in 1..Len(b) : ~Packable(b[i])

\* the next characteristic.write of _request: which branch writes it, the frame,
\* and the body list as the branch leaves it
next_write(h, b, where) ==
    IF where = "start" /\ b = <<>>
    THEN [path |-> "header", frame |-> data(h), body |-> b]
    ELSE IF where = "start" /\ fits_one_frame(h, b)
    THEN [path |-> "single", frame |-> single_frame(h, b), body |-> b]
    ELSE [path |-> "fragment", frame |-> fragment_pass(h, b).frame,
          body |-> fragment_pass(h, b).body]

\* a plausible slip: the header is never turned into a continuation header
after_write_unchanged(h, path) == h

\* "Future fragments are continuations"
after_write(h, path) == IF path = "fragment" THEN [h EXCEPT !.continuation = TRUE] ELSE h

\* a plausible slip: the loop ends after the first fragment
while_body_once(w) == FALSE

\* "while body": after a fragment, the outer loop runs again while items are pending
while_body(w) == w.path = "fragment" /\ w.body # <<>>

_request_pack_error ==
    /\ pc = "request"
    /\ at = "start"
    /\ pack_error(body)
    /\ pc' = "done"
    /\ result' = Raised("struct.error", -1)
    /\ UNCHANGED <<op, header, body, at, written, counters, tries, io, responses,
                   parsed, req, before, _cid, _signature, attrs, layers, ncalls>>

_request_write_acked ==
    /\ pc = "request"
    /\ ~(at = "start" /\ pack_error(body))
    /\ \E t \in TidsFor(header) :
         LET h == with_tid(header, t)
             w == next_write(h, body, at)
         IN  /\ written' = Append(written, [frame |-> w.frame, ack |-> TRUE])
             /\ io' = Append(io, IoOp("_request", TRUE))
             /\ body' = w.body
             /\ header' = after_write(h, w.path)
             /\ IF while_body(w)
                THEN /\ pc' = "request"
                     /\ at' = "loop"
                     /\ UNCHANGED <<counters, tries>>
                ELSE /\ pc' = "read"
                     /\ at' = "start"
                     /\ counters' = FirstAttempt(layers)
                     /\ tries' = 1
    /\ UNCHANGED <<op, responses, parsed, result, req, before, _cid, _signature,
                   attrs, layers, ncalls>>

_request_write_fails ==
    /\ pc = "request"
    /\ ~(at = "start" /\ pack_error(body))
    /\ \E t \in TidsFor(header) :
         LET h == with_tid(header, t)
             w == next_write(h, body, at)
         IN  /\ written' = Append(written, [frame |-> w.frame, ack |-> FALSE])
             /\ body' = w.body
             /\ header' = h
    /\ at' = "start"
    /\ transport_failure("_request", "request")
    /\ UNCHANGED <<op, responses, parsed, req, before, _cid, _signature, attrs,
                   layers, ncalls>>

(***************************************************************************)
(* HapCharacteristic._read and the rest of write                           *)
(***************************************************************************)
\* a plausible slip: write() reads again when the response was rejected
after_response_read_again(outcome) ==
    IF outcome.state = "raised" THEN "read" ELSE "done"

\* write() has no loop and catches nothing: whatever the checks and the parser
\* return or raise ends the call
after_response(outcome) == "done"

_read_returns(response) ==
    /\ pc = "read"
    /\ LET w == write_after_read(header, response, attrs)
       IN  /\ attrs' = w.attrs
           /\ parsed' = w.parsed
           /\ result' = w.result
           /\ _signature' = IF op \in {"setup", "signature"} /\ w.result.state = "returned"
                            THEN w.result.value
                            ELSE _signature
    /\ responses' = Append(responses, response)
    /\ io' = Append(io, IoOp("_read", TRUE))
    /\ pc' = after_response(write_after_read(header, response, attrs).result)
    /\ UNCHANGED <<op, header, body, at, written, counters, tries, req, before, _cid,
                   layers, ncalls>>

_read_fails ==
    /\ pc = "read"
    /\ transport_failure("_read", "read")
    /\ UNCHANGED <<op, header, body, at, written, responses, parsed, req, before,
                   _cid, _signature, attrs, layers, ncalls>>

\* the call returns or raises to the caller, who drops the request objects
Return ==
    /\ pc = "done"
    /\ pc' = "idle"
    /\ op' = "none"
    /\ header' = NoHeader
    /\ body' = <<>>
    /\ at' = "start"
    /\ written' = <<>>
    /\ counters' = <<>>
    /\ tries' = 0
    /\ io' = <<>>
    /\ responses' = <<>>
    /\ parsed' = FALSE
    /\ result' = NoResult
    /\ req' = [header |-> NoHeader, body |-> <<>>]
    /\ before' = [attrs |-> attrs, _signature |-> _signature, _cid |-> _cid]
    /\ UNCHANGED <<_cid, _signature, attrs, layers, ncalls>>

(***************************************************************************)
(* The facade: any calls, any transport outcomes, any peer responses       *)
(***************************************************************************)
CidChoices == {CidBytes}

Next ==
    \/ \E retry \in BOOLEAN, max_attempts \in 1..MaxAttempts : setup(retry, max_attempts)
    \/ signature
    \/ cid
    \/ \E h \in WriteHeaders, b \in BodiesSpec : write(h, b)
    \/ \E h \in WriteHeaders : read(h)
    \/ \E value \in CidChoices : _read_cid_returns(value)
    \/ _read_cid_fails
    \/ _request_pack_error
    \/ _request_write_acked
    \/ _request_write_fails
    \/ \E response \in Responses(header) : _read_returns(response)
    \/ _read_fails
    \/ Return

Spec == Init /\ [][Next]_vars

(***************************************************************************)
(* The fragmenter: one write() call for every body of up to MaxItems items *)
(***************************************************************************)
\* the items bodies are made of: values that fill a frame exactly, that are cut,
\* that are empty, and one that is longer than a TLV length byte can say
Items ==
    {<<1, Value(1, 255)>>, <<1, Value(1, 253)>>, <<2, Value(2, 100)>>,
     <<1, Value(1, 0)>>, <<2, Value(2, 256)>>}

BodiesFrag == UNION {[1..n -> Items] : n \in 0..MaxItems}

\* the peer reports success without a body, echoing the control field of the
\* request as it was passed or as _request left it
ResponsesFrag ==
    {<<control_field(req.header), header.transaction_id, Success>>,
     <<control_field(header), header.transaction_id, Success>>}

\* write(h, b) has been called on a facade, with or without retry wrappers
InitFrag ==
    /\ pc = "request"
    /\ op = "write"
    /\ header \in WriteHeaders
    /\ body \in BodiesFrag
    /\ at = "start"
    /\ written = <<>>
    /\ layers \in {<<>>, <<MaxAttempts>>}
    /\ counters = FirstAttempt(layers)
    /\ tries = 1
    /\ io = <<>>
    /\ responses = <<>>
    /\ parsed = FALSE
    /\ result = NoResult
    /\ req = [header |-> header, body |-> body]
    /\ before = [attrs |-> InitAttrs, _signature |-> None, _cid |-> None]
    /\ _cid = None
    /\ _signature = None
    /\ attrs = InitAttrs
    /\ ncalls = MaxCalls

NextFrag ==
    \/ _request_pack_error
    \/ _request_write_acked
    \/ _request_write_fails
    \/ \E response \in ResponsesFrag : _read_returns(response)
    \/ _read_fails
    \/ Return

SpecFrag == InitFrag /\ [][NextFrag]_vars

(***************************************************************************)
(* Reading the frames the transport was handed                             *)
(***************************************************************************)
\* the frames whose write the transport acknowledged, in order
Acked == SelectSeq(written, LAMBDA w : w.ack)

\* the request header as passed, with the transaction id the call uses
SentHeader == with_tid(req.header, header.transaction_id)

\* the header bytes at the front of a frame, by its continuation bit
FrameHeaderLen(f) == IF Bit(f[1], 7) THEN 2 ELSE 3 + Len(req.header.cid_sid)

\* the TLV bytes of a frame, behind its header and its 2-byte length
FrameBody(f) == Drop(f, FrameHeaderLen(f) + 2)

\* the frame is a header alone, or its length prefix counts its TLV bytes
FrameLengthOk(f) ==
    \/ Len(f) = FrameHeaderLen(f)
    \/ /\ Len(f) >= FrameHeaderLen(f) + 2
       /\ SubSeq(f, FrameHeaderLen(f) + 1, FrameHeaderLen(f) + 2) = pack_H(Len(FrameBody(f)))

RECURSIVE ConcatBodies(_)
ConcatBodies(ws) ==
    IF ws = <<>> THEN <<>> ELSE FrameBody(ws[1].frame) \o ConcatBodies(Tail(ws))

\* the (type, value) items of a TLV stream; WellFormed says the stream ends on an
\* item boundary
RECURSIVE WellFormed(_)
WellFormed(stream) ==
    stream = <<>> \/ (iterate_tvl(stream).ok /\ WellFormed(iterate_tvl(stream).rest))

RECURSIVE Decoded(_)
Decoded(stream) ==
    IF stream = <<>> \/ ~iterate_tvl(stream).ok THEN <<>>
    ELSE <<<<iterate_tvl(stream).body_type, iterate_tvl(stream).bytes_>>>>
         \o Decoded(iterate_tvl(stream).rest)

\* items is original item by item, except that an original item may appear as two
\* consecutive items of its type whose values concatenate to its value
RECURSIVE CarriesItems(_, _)
CarriesItems(original, items) ==
    IF original = <<>> THEN items = <<>>
    ELSE IF items = <<>> THEN FALSE
    ELSE \/ items[1] = original[1] /\ CarriesItems(Tail(original), Tail(items))
         \/ /\ Len(items) >= 2
            /\ items[1][1] = original[1][1]
            /\ items[2][1] = original[1][1]
            /\ items[1][2] \o items[2][2] = original[1][2]
            /\ CarriesItems(Tail(original), Tail(Tail(items)))

\* the body as passed does not fit one frame behind the request header
NeedsFragmentation == req.body # <<>> /\ ~pack_error(req.body) /\ ~fits_one_frame(SentHeader, req.body)

\* _request has returned and every write it made was acknowledged
RequestCompleted == pc \in {"read", "done"} /\ written # <<>> /\ Len(Acked) = Len(written)

(***************************************************************************)
(* C1: every frame handed to characteristic.write, on the single-frame     *)
(* path and on the fragmented path, is at most max_len (512) bytes long.   *)
(***************************************************************************)
C1_FrameWithinMaxFrame == \A i \in 1..Len(written) : Len(written[i].frame) <= max_len

(***************************************************************************)
(* C2: a write whose body needs fragmentation returns the parsed response  *)
(* when, after all fragments, the peer answers with continuation bit 0,    *)
(* the request's response bit and transaction id, and status Success.      *)
(***************************************************************************)
ConformingAnswer ==
    /\ responses # <<>>
    /\ Take(responses[1], 3) =
         <<control_field(req.header), header.transaction_id, Success>>
    /\ _check_read_response(SentHeader, responses[1]).state = "none"

C2_FragmentedWriteReturns ==
    (pc = "done" /\ op = "write" /\ NeedsFragmentation /\ RequestCompleted
        /\ ConformingAnswer)
    => result.state = "returned"

(***************************************************************************)
(* C3: in a fragmented write the first frame written carries the full      *)
(* request header with continuation bit 0; every later frame written       *)
(* carries the 2-byte header [control_field, tid] with continuation bit 1  *)
(* and neither op_code nor cid_sid; the transaction id byte and the        *)
(* response bit are the same in all of them.  "Written" frames are those   *)
(* the transport acknowledged.                                             *)
(***************************************************************************)
C3_ContinuationFraming ==
    (NeedsFragmentation /\ Acked # <<>>) =>
        /\ Take(Acked[1].frame, 3 + Len(req.header.cid_sid)) =
             <<control_field(req.header), req.header.op_code, header.transaction_id>>
             \o req.header.cid_sid
        /\ ~Bit(Acked[1].frame[1], 7)
        /\ \A i \in 2..Len(Acked) :
             /\ Take(Acked[i].frame, 2) =
                  <<control_field(req.header) + 128, header.transaction_id>>
             /\ Bit(Acked[i].frame[1], 7)
             /\ Bit(Acked[i].frame[1], 1) = Bit(Acked[1].frame[1], 1)
             /\ Acked[i].frame[2] = Acked[1].frame[3]
             /\ \/ Len(Acked[i].frame) = 2
                \/ /\ Len(Acked[i].frame) >= 4
                   /\ SubSeq(Acked[i].frame, 3, 4) = pack_H(Len(Acked[i].frame) - 4)

\* a fragmented write of three acknowledged frames
C3_Witness == NeedsFragmentation /\ RequestCompleted /\ Len(Acked) >= 3

(***************************************************************************)
(* C4 as claimed: for a body written over several frames, the TLV bytes of *)
(* the frames, concatenated in order, are exactly the concatenation of     *)
(* _prepare_tlv(type, value) over the original items.                      *)
(***************************************************************************)
C4_BytesReconstructOriginal ==
    (RequestCompleted /\ Len(written) >= 2) =>
        ConcatBodies(written) = body_concat(req.body)

(***************************************************************************)
(* C4 amended: for a body written over several frames by a _request whose  *)
(* writes are all acknowledged, every frame's length prefix counts its TLV *)
(* bytes, and the TLV bytes of the frames, concatenated in order, are a    *)
(* well-formed TLV stream that carries the original items in order, an     *)
(* item cut at a frame boundary appearing as two consecutive TLVs of its   *)
(* type whose values concatenate to the original value.                    *)
(***************************************************************************)
C4_ItemsReconstructOriginal ==
    (RequestCompleted /\ Len(written) >= 2) =>
        /\ \A i \in 1..Len(written) : FrameLengthOk(written[i].frame)
        /\ WellFormed(ConcatBodies(written))
        /\ CarriesItems(req.body, Decoded(ConcatBodies(written)))

\* three frames were written and an item was cut in two non-empty slices
C4_Witness ==
    /\ RequestCompleted
    /\ Len(written) >= 3
    /\ \E i \in 1..Len(Decoded(ConcatBodies(written))) - 1 :
         LET items == Decoded(ConcatBodies(written)) IN
         /\ items[i][1] = items[i + 1][1]
         /\ items[i][2] # <<>>
         /\ items[i + 1][2] # <<>>
         /\ \E k \in 1..Len(req.body) : req.body[k][2] = items[i][2] \o items[i + 1][2]

(***************************************************************************)
(* C5: a body item whose value is longer than 255 bytes is written as      *)
(* successive TLVs of its type, each length byte at most 255 and equal to  *)
(* the length of its slice, the slices concatenating to the value; the     *)
(* write does not fail because of the value's length.                      *)
(***************************************************************************)
HasLongValue == \E k \in 1..Len(req.body) : Len(req.body[k][2]) > 255

C5_LongValueIsSplit ==
    (op = "write" /\ HasLongValue /\ pc = "done" /\ Failures = 0) =>
        /\ result.exc # "struct.error"
        /\ written # <<>>
        /\ WellFormed(ConcatBodies(written))

(***************************************************************************)
(* Reading the response the transport returned                             *)
(***************************************************************************)
\* the last response characteristic.read returned during the call
Answer == responses[Len(responses)]

\* the transaction id byte of the request as the transport acknowledged it
SentTid == Acked[1].frame[3]

\* the response decodes to the control field the engine compares against
ControlFieldMatches(r) ==
    Len(r) >= 3 /\ response_control_field(from_data(r)) = control_field(header)

\* the response passes the control field, transaction id and status checks
PassesHeaderChecks(r) ==
    ControlFieldMatches(r) /\ r[2] = SentTid /\ r[3] = Success

(***************************************************************************)
(* C6: write/read returns a parsed result only if the response's           *)
(* transaction id byte equals the one sent in the request; when the        *)
(* control field matches and the transaction id differs, the call fails    *)
(* and _parse_response is not invoked.                                     *)
(***************************************************************************)
C6_TransactionIdChecked ==
    responses # <<>> =>
        /\ result.state = "returned" => (Len(Answer) >= 2 /\ Answer[2] = SentTid)
        /\ (ControlFieldMatches(Answer) /\ Answer[2] # SentTid) =>
               (pc = "done" /\ result.state = "raised" /\ ~parsed)

\* a response with the request's control field and another transaction id was read
C6_Witness ==
    /\ pc = "done"
    /\ op \in {"write", "read"}
    /\ responses # <<>>
    /\ ControlFieldMatches(Answer)
    /\ Answer[2] # SentTid
    /\ result.exc = "ValueError: Invalid transaction ID"

(***************************************************************************)
(* C7: a response whose control field and transaction id match and whose   *)
(* status code is not Success makes the call fail with HapBleError         *)
(* carrying that status code; the body is not parsed and no attribute or   *)
(* cache of the facade changes.                                            *)
(***************************************************************************)
C7_ErrorStatusRaisesHapBleError ==
    (responses # <<>> /\ ControlFieldMatches(Answer) /\ Answer[2] = SentTid
        /\ Answer[3] # Success)
    => /\ result = Raised("HapBleError", Answer[3])
       /\ ~parsed
       /\ attrs = before.attrs
       /\ _signature = before._signature

(***************************************************************************)
(* C8: a response longer than 3 bytes that passes the control field,       *)
(* transaction id and status checks fails with the body-length error       *)
(* unless its little-endian body_length (bytes 3..4) equals                *)
(* len(response) - 5; a 4-byte response is reported the same way.          *)
(***************************************************************************)
C8_BodyLengthChecked ==
    (responses # <<>> /\ PassesHeaderChecks(Answer) /\ Len(Answer) > 3)
    => IF Len(Answer) >= 5 /\ unpack_H(SubSeq(Answer, 4, 5)) = Len(Answer) - 5
       THEN result.exc # "ValueError: Invalid body length"
       ELSE result = Raised("ValueError: Invalid body length", -1)

(***************************************************************************)
(* C9: a response that fails validation or parsing ends the call at once:  *)
(* the call fails with that error, and the read that returned the response *)
(* is the last transport operation of the call (no further write, read or  *)
(* reconnect), also with retry wrappers installed.                         *)
(***************************************************************************)
C9_ApplicationFailureNotRetried ==
    (responses # <<>>
        /\ write_after_read(header, responses[1], before.attrs).result.state = "raised")
    => /\ pc = "done"
       /\ Len(responses) = 1
       /\ result = write_after_read(header, responses[1], before.attrs).result
       /\ result.exc # "TransportError"
       /\ io[Len(io)] = IoOp("_read", TRUE)

\* under an installed wrapper that already retried during this call, a response
\* was rejected for its status and the call is over
C9_Witness ==
    /\ pc = "done"
    /\ layers # <<>>
    /\ Failures >= 1
    /\ responses # <<>>
    /\ result.exc = "HapBleError"

(***************************************************************************)
(* C10: after any sequence of setup(retry=True, max_attempts=N) calls, one *)
(* invocation of a supervised operation makes at most N attempts.          *)
(***************************************************************************)
C10_AttemptsBounded ==
    (layers # <<>> /\ \A i \in 1..Len(layers) : layers[i] = layers[1])
    => tries <= layers[1]

(***************************************************************************)
(* C11: the facade caches lazily.  An access of cid that finds _cid set,   *)
(* and an access of signature (directly or through setup) that finds       *)
(* _signature set, issues no transport operation and leaves the cached     *)
(* value as it was; the signature access returns that cached value.  The   *)
(* descriptor is read only by an access that finds _cid unset, and a       *)
(* signature-read request is written only by an access of signature that   *)
(* finds _signature unset.                                                 *)
(***************************************************************************)
C11_LazyCaching ==
    /\ (op = "cid" /\ before._cid # None) =>
          (io = <<>> /\ written = <<>> /\ pc = "done" /\ _cid = before._cid)
    /\ (op \in {"signature", "setup"} /\ before._signature # None) =>
          /\ io = <<>>
          /\ written = <<>>
          /\ pc = "done"
          /\ _signature = before._signature
          /\ _cid = before._cid
          /\ result = Returned(before._signature[1])
    /\ (\E i \in 1..Len(io) : io[i].op = "_read_cid") =>
          (op \in {"cid", "signature", "setup"} /\ before._cid = None)
    /\ (op \in {"cid", "signature", "setup"} /\ written # <<>>) =>
          (op # "cid" /\ before._signature = None)

\* the signature is accessed again after an access that succeeded, and so is cid
C11_Witness ==
    /\ pc = "done"
    /\ op = "signature"
    /\ before._signature # None
    /\ before._cid # None
    /\ result.state = "returned"

(***************************************************************************)
(* C12: every request frame the facade writes has the response bit (bit 1  *)
(* of the control field) equal to 0; stated here for the frames of the     *)
(* signature-read request, whose header HapCharacteristic.signature        *)
(* constructs itself.                                                      *)
(***************************************************************************)
C12_RequestResponseBitClear ==
    op \in {"signature", "setup"} =>
        \A i \in 1..Len(written) : ~Bit(written[i].frame[1], 1)

(***************************************************************************)
(* C13: response-header round trip.  For the three header bytes h of every *)
(* response read, HapBlePduResponseHeader.from_data(h).data equals h.      *)
(***************************************************************************)
C13_ResponseHeaderRoundTrip ==
    (responses # <<>> /\ ~from_data_fails(Answer)) =>
        response_data(from_data(Take(Answer, 3))) = Take(Answer, 3)

(***************************************************************************)
(* Reading the body of the response                                        *)
(***************************************************************************)
\* the (type, value) items of the body of the last response
AnswerItems == Decoded(Drop(Answer, 5))

\* the converter a GATT_Presentation_Format_Descriptor item names
FormatConverterOf(item) == format_code_to_name[parse_format(item[2]).format_code]

\* the mapping the call returned
ReturnedAttributes == result.value[1]

(***************************************************************************)
(* C14: signature parsing does not depend on TLV order.  When a parsed     *)
(* response body holds a GATT_Presentation_Format_Descriptor and a Value,  *)
(* HAP_Step_Value_Descriptor or GATT_Valid_Range item, the returned value, *)
(* step or min_value/max_value is the descriptor's format converter        *)
(* applied to the raw bytes, whichever of the two comes first.             *)
(***************************************************************************)
C14_ParsingIndependentOfOrder ==
    (pc = "done" /\ responses # <<>> /\ parsed /\ result.state = "returned") =>
        \A i, j \in 1..Len(AnswerItems) :
            (AnswerItems[i][1] = 12 /\ AnswerItems[j][1] \in {1, 13, 14}) =>
                LET conv == FormatConverterOf(AnswerItems[i])
                    raw == AnswerItems[j][2]
                IN  CASE AnswerItems[j][1] = 1 ->
                           ReturnedAttributes["value"] = Some(convert(conv, raw))
                      [] AnswerItems[j][1] = 14 ->
                           ReturnedAttributes["hap_step_value_descriptor"] =
                               Some(convert(conv, raw))
                      [] OTHER ->
                           /\ ReturnedAttributes["min_value"] =
                                Some(convert(conv, Take(raw, Len(raw) \div 2)))
                           /\ ReturnedAttributes["max_value"] =
                                Some(convert(conv, Drop(raw, Len(raw) \div 2)))

(***************************************************************************)
(* C15: a TLV whose type code is not in the parameter table is ignored.    *)
(* When the body of a validated response is a well-formed TLV stream with  *)
(* such an item, the call returns what parsing the stream without the      *)
(* unknown items returns (when that raises nothing): no error is raised    *)
(* and the unknown item adds nothing to the mapping.                       *)
(***************************************************************************)
KnownType(item) == item[1] \in DOMAIN HAP_param_type_code_to_name

\* the response with the items of unknown type removed from its body
WithoutUnknownItems(r) == Take(r, 5) \o body_concat(SelectSeq(Decoded(Drop(r, 5)), KnownType))

C15_UnknownTypeIgnored ==
    (pc = "done" /\ responses # <<>> /\ parsed
        /\ WellFormed(Drop(Answer, 5))
        /\ \E i \in 1..Len(AnswerItems) : ~KnownType(AnswerItems[i])
        /\ _parse_response(WithoutUnknownItems(Answer), before.attrs).exc = "none")
    => result = Returned(_parse_response(WithoutUnknownItems(Answer), before.attrs).attributes)

(***************************************************************************)
(* C16: within one write/read call without transport failures, the request *)
(* frames are written one after the other, each after the previous write   *)
(* was acknowledged; the GATT read of the response is issued only after    *)
(* the last frame has been written (nothing of the body is pending and no  *)
(* write follows the read); a call that reads a response issues exactly    *)
(* one GATT read, and never more than one.                                 *)
(***************************************************************************)
\* the positions in io of the transport operations of one kind
IoAt(name) == {i \in 1..Len(io) : io[i].op = name}

\* write() is running: called directly, through read(), or by a signature access
\* that found the cache unset
InWrite == op \in {"write", "read"} \/ (op \in {"signature", "setup"} /\ before._signature = None)

C16_WritesThenSingleRead ==
    (InWrite /\ Failures = 0) =>
        /\ Len(Acked) = Len(written)
        /\ Cardinality(IoAt("_request")) = Len(written)
        /\ Cardinality(IoAt("_read")) = Len(responses)
        /\ Len(responses) <= 1
        /\ \A i \in IoAt("_read") :
             /\ \A j \in IoAt("_request") : j < i
             /\ written # <<>>
             /\ NeedsFragmentation => body = <<>>
             /\ pc = "done"
        /\ (pc = "done" /\ result.exc \notin {"struct.error", "TransportError"}) =>
             Len(responses) = 1
        /\ (pc = "done" /\ Len(responses) = 0) => written = <<>>

\* a write of two frames was followed by the read of the response
C16_Witness ==
    /\ pc = "done"
    /\ op = "write"
    /\ Failures = 0
    /\ Len(written) >= 2
    /\ Len(responses) = 1
    /\ io[Len(io)] = IoOp("_read", TRUE)

(***************************************************************************)
(* C17: the fragmentation loop of _request terminates for every body of    *)
(* TLV items with values of 0..255 bytes.  Each pass of the outer loop     *)
(* that leaves items pending has removed an item from the pending body or  *)
(* strictly shortened the first pending value; the frames written never    *)
(* outnumber the items of the body by more than the transport failures of  *)
(* the call; and while the call is in _request its next write can be       *)
(* made (no pending item fails to pack), so the call goes on to the        *)
(* response read or fails.                                                 *)
(***************************************************************************)
\* a pass of the outer loop wrote its frame and the loop goes on
LoopPass == pc = "request" /\ pc' = "request" /\ at' = "loop"

\* the pending body got smaller: fewer items, or a shorter first value
PendingShrinks ==
    \/ Len(body') < Len(body)
    \/ Len(body') = Len(body) /\ Len(body'[1][2]) < Len(body[1][2])

C17_FragmentLoopTerminates ==
    /\ [][(LoopPass /\ ~pack_error(req.body)) => PendingShrinks]_vars
    /\ [](~pack_error(req.body) =>
            /\ Len(written) <= Len(req.body) + Failures + 1
            /\ at = "loop" => (Len(body) < Len(req.body) /\ body # <<>>)
            /\ pc = "request" => (~pack_error(body) /\ TidsFor(header) # {}))

\* the loop ended after a value filled its frame exactly: its empty remainder went
\* out in a frame of its own
C17_Witness ==
    /\ pc = "read"
    /\ NeedsFragmentation
    /\ RequestCompleted
    /\ Len(written) >= 2
    /\ FrameBody(written[Len(written)].frame) = _prepare_tlv(1, <<>>)
    /\ \A k \in 1..Len(req.body) : req.body[k][2] # <<>>

(***************************************************************************)
(* C18: when the supervised _request is retried after a transport write    *)
(* failed on a fragment of a fragmented body, the frames the transport     *)
(* acknowledged over all attempts still carry every original body item,    *)
(* and no retry writes the header alone.                                   *)
(***************************************************************************)
C18_RetryKeepsBody ==
    (pc = "read" /\ NeedsFragmentation /\ layers # <<>> /\ Failures >= 1) =>
        /\ CarriesItems(req.body, Decoded(ConcatBodies(Acked)))
        /\ \A i \in 1..Len(Acked) : Len(Acked[i].frame) > FrameHeaderLen(Acked[i].frame)

(***************************************************************************)
(* C19: a response that fails during parsing leaves the facade unchanged:  *)
(* hap_format_converter, the attributes set before and the signature cache *)
(* have the values they had when the call started.                         *)
(***************************************************************************)
C19_FailedParseLeavesFacade ==
    (pc = "done" /\ responses # <<>> /\ parsed /\ result.state = "raised") =>
        /\ attrs = before.attrs
        /\ _signature = before._signature
        /\ _cid = before._cid \/ op \in {"signature", "setup"}

(***************************************************************************)
(* C20: response validation accepts a response only if its raw first byte  *)
(* equals the request's control field: a response whose first byte differs *)
(* from it, a reserved bit (bit 0 or bits 2..6) set included, is rejected  *)
(* and never parsed.                                                       *)
(***************************************************************************)
C20_RawControlFieldChecked ==
    (responses # <<>> /\ Len(Answer) >= 1 /\ Answer[1] # control_field(header)) =>
        (pc = "done" /\ result.state = "raised" /\ ~parsed)

====
